---- MODULE Spec2Model ----
(***************************************************************************)
(* img-optimize: the command `optimize` (cli.py) and the engine            *)
(* ImageOptimizer (optimizer.py) as a state machine.                       *)
(*                                                                         *)
(* Text is a sequence of one-character strings, a path is a sequence of    *)
(* names, an optional integer is <<>> (None) or <<n>>.  call and ret hold   *)
(* the arguments and the return value of a direct call of a function.      *)
(***************************************************************************)
EXTENDS Integers, Sequences, FiniteSets, TLC

VARIABLES args, env, fs, dirs, logFile, pc, exit_code, console, eff,
          out_path, image_files, tasks, results, summary, init_fs, call, ret

vars == <<args, env, fs, dirs, logFile, pc, exit_code, console, eff,
          out_path, image_files, tasks, results, summary, init_fs, call, ret>>

-----------------------------------------------------------------------------
(* Bounds of the model *)

\* file sizes and encoded sizes range over 1..MaxSize
MaxSize == 2
\* worker counts range over 0..MaxWorkers
MaxWorkers == 2
\* image dimensions and dimension limits range over 1..MaxDim
MaxDim == 4
\* the byte counts given to calculate_savings include 0..MaxBytes
MaxBytes == 6
\* the byte counts given to format_size have up to MaxDigits digits to the
\* base 1024
MaxDigits == 5

-----------------------------------------------------------------------------
(* Text *)

None == <<>>

Some(n) == <<n>>

\* Python truthiness of an optional integer: None and 0 are falsy
Truthy(x) == x # None /\ x[1] # 0

\* a or b
PyOr(a, b) == IF Truthy(a) THEN a ELSE b

UpperOf(c) ==
    CASE c = "p" -> "P" [] c = "n" -> "N" [] c = "g" -> "G" [] c = "j" -> "J"
      [] c = "e" -> "E" [] c = "w" -> "W" [] c = "b" -> "B" [] c = "a" -> "A"
      [] c = "s" -> "S" [] c = "t" -> "T" [] c = "q" -> "Q" [] c = "x" -> "X"
      [] OTHER -> c

Letters == {"p", "n", "g", "j", "e", "w", "b", "a", "s", "t", "q", "x"}

\* str.lower() on one character
LowerOf(c) ==
    IF \E l \in Letters : UpperOf(l) = c
    THEN CHOOSE l \in Letters : UpperOf(l) = c
    ELSE c

lower(s) == [i \in 1..Len(s) |-> LowerOf(s[i])]

RECURSIVE str_replace(_, _, _)
\* s.replace(old, new) for a one-character old: every occurrence is replaced
str_replace(s, old, new) ==
    IF s = <<>> THEN <<>>
    ELSE (IF Head(s) = old THEN new ELSE <<Head(s)>>)
         \o str_replace(Tail(s), old, new)

RECURSIVE split(_, _)
\* s.split(sep) for a one-character sep
split(s, sep) ==
    IF \A i \in 1..Len(s) : s[i] # sep THEN <<s>>
    ELSE LET k == CHOOSE i \in 1..Len(s) :
                      s[i] = sep /\ \A j \in 1..(i - 1) : s[j] # sep
         IN <<SubSeq(s, 1, k - 1)>> \o split(SubSeq(s, k + 1, Len(s)), sep)

RECURSIVE join(_)
\* str(path): the names joined by "/"
join(p) ==
    IF p = <<>> THEN <<>>
    ELSE IF Len(p) = 1 THEN p[1]
    ELSE p[1] \o <<"/">> \o join(Tail(p))

\* Path.suffix: the text from the last "." of the final name, "" without one
suffix(name) ==
    IF \A i \in 2..Len(name) : name[i] # "."
    THEN <<>>
    ELSE LET k == CHOOSE i \in 2..Len(name) :
                      name[i] = "." /\ \A j \in (i + 1)..Len(name) : name[j] # "."
         IN SubSeq(name, k, Len(name))

\* equality of two characters, after case folding on a case-insensitive platform
SameChar(a, b, fold) == IF fold THEN LowerOf(a) = LowerOf(b) ELSE a = b

RECURSIVE fnmatch(_, _, _)
\* shell-style match of text against pat ("*" any run, "?" one character)
fnmatch(text, pat, fold) ==
    IF pat = <<>> THEN text = <<>>
    ELSE IF Head(pat) = "*"
         THEN fnmatch(text, Tail(pat), fold)
              \/ (text # <<>> /\ fnmatch(Tail(text), pat, fold))
    ELSE IF Head(pat) = "?"
         THEN text # <<>> /\ fnmatch(Tail(text), Tail(pat), fold)
    ELSE text # <<>> /\ SameChar(Head(text), Head(pat), fold)
         /\ fnmatch(Tail(text), Tail(pat), fold)

RECURSIVE should_skip(_, _, _)
should_skip(file_path, skip_patterns, fold) ==
    IF skip_patterns = <<>> THEN FALSE
    ELSE IF fnmatch(join(file_path), Head(skip_patterns), fold)
            \/ fnmatch(file_path[Len(file_path)], Head(skip_patterns), fold)
         THEN TRUE
         ELSE should_skip(file_path, Tail(skip_patterns), fold)

-----------------------------------------------------------------------------
(* Paths and the directory tree *)

parent(p) == SubSeq(p, 1, Len(p) - 1)

name(p) == p[Len(p)]

IsUnder(p, d) == Len(p) > Len(d) /\ SubSeq(p, 1, Len(d)) = d

\* Path.relative_to(d), for a path under d
relative_to(p, d) == SubSeq(p, Len(d) + 1, Len(p))

\* every directory that mkdir(parents=True) of d makes sure of
Ancestors(d) == {SubSeq(d, 1, k) : k \in 1..Len(d)}

InputDir == << <<"i">> >>

OtherDir == << <<"o">> >>

optimized == <<"o", "p", "t", "i", "m", "i", "z", "e", "d">>

SubDir == InputDir \o << <<"s">> >>

\* a directory whose own name ends in .png
PngDir == InputDir \o << <<"x", ".", "p", "n", "g", "q", ".", "p", "n", "g">> >>

F_a == InputDir \o << <<"a", ".", "p", "n", "g">> >>

F_b == InputDir \o << <<"b", ".", "J", "p", "g">> >>

F_c == InputDir \o << <<"c", ".", "J", "P", "G">> >>

F_t == InputDir \o << <<"t", ".", "t", "x", "t">> >>

F_s == SubDir \o << <<"e", ".", "p", "n", "g">> >>

F_w == PngDir \o << <<"w", ".", "p", "n", "g">> >>

\* the order in which a directory scan reports the entries of the tree
EntryOrder ==
    <<F_a, F_b, F_c, F_t, SubDir, PngDir, InputDir \o <<optimized>>, F_s, F_w>>

Exists(fsv, dirsv, p) == p \in DOMAIN fsv \/ p \in dirsv

RECURSIVE PathMatch(_, _, _)
\* pathlib's selectors: a "**" part spans any number of directories, any other
\* part matches one name
PathMatch(parts, names, fold) ==
    IF parts = <<>> THEN names = <<>>
    ELSE IF Head(parts) = <<"*", "*">>
         THEN PathMatch(Tail(parts), names, fold)
              \/ (names # <<>> /\ PathMatch(parts, Tail(names), fold))
    ELSE names # <<>> /\ fnmatch(Head(names), Head(parts), fold)
         /\ PathMatch(Tail(parts), Tail(names), fold)

\* Path.glob(pattern) from root: the existing entries below root that match
glob(fsv, dirsv, root, pattern, fold) ==
    SelectSeq(EntryOrder,
              LAMBDA p : /\ Exists(fsv, dirsv, p)
                         /\ IsUnder(p, root)
                         /\ PathMatch(split(pattern, "/"), relative_to(p, root), fold))

extensions ==
    << <<"*", ".", "p", "n", "g">>, <<"*", ".", "P", "N", "G">>,
       <<"*", ".", "j", "p", "g">>, <<"*", ".", "J", "P", "G">>,
       <<"*", ".", "j", "p", "e", "g">>, <<"*", ".", "J", "P", "E", "G">>,
       <<"*", ".", "w", "e", "b", "p">>, <<"*", ".", "W", "E", "B", "P">> >>

search_pattern(recursive) == IF recursive THEN <<"*", "*", "/", "*">> ELSE <<"*">>

\* the pattern globbed for one extension
ext_pattern(pattern, ext) == str_replace(pattern, "*", ext)

RECURSIVE discover_from(_, _, _, _, _, _, _)
discover_from(exts, fsv, dirsv, input_path, recursive, skip_patterns, fold) ==
    IF exts = <<>> THEN <<>>
    ELSE LET found == glob(fsv, dirsv, input_path,
                           ext_pattern(search_pattern(recursive), Head(exts)), fold)
         IN SelectSeq(found, LAMBDA f : ~should_skip(f, skip_patterns, fold))
            \o discover_from(Tail(exts), fsv, dirsv, input_path, recursive,
                             skip_patterns, fold)

\* image_files as the loop over extensions leaves it
discover(fsv, dirsv, input_path, recursive, skip_patterns, fold) ==
    discover_from(extensions, fsv, dirsv, input_path, recursive, skip_patterns, fold)

-----------------------------------------------------------------------------
(* Options and the config file *)

DefaultQuality == 85

DefaultWorkers == 1

MinQuality == 1

MaxQuality == 100

EmptyConfig ==
    [quality |-> None, max_width |-> None, max_height |-> None,
     workers |-> None, skip |-> <<>>]

\* a loader that hands on whatever the file holds, parsed or not
load_config_unchecked(e) ==
    IF ~e.yaml \/ e.cfg_state = "absent" THEN [error |-> FALSE, cfg |-> EmptyConfig]
    ELSE [error |-> FALSE, cfg |-> e.cfg]

\* a loader that swallows the parser's exception
load_config_lenient(e) ==
    IF e.yaml /\ e.cfg_state = "ok" THEN [error |-> FALSE, cfg |-> e.cfg]
    ELSE [error |-> FALSE, cfg |-> EmptyConfig]

\* load_config: the mapping read from the file, or the parser's exception.
\* e.yaml: the yaml module is importable; e.cfg_state: the state of the file
\* consulted (the --config path, or .img-optimize.yaml of the working directory)
load_config(e) ==
    IF ~e.yaml THEN [error |-> FALSE, cfg |-> EmptyConfig]
    ELSE IF e.cfg_state = "absent" THEN [error |-> FALSE, cfg |-> EmptyConfig]
    ELSE IF e.cfg_state = "malformed" THEN [error |-> TRUE, cfg |-> EmptyConfig]
    ELSE [error |-> FALSE, cfg |-> e.cfg]

\* cfg.get(key, default) for an integer key
cfg_get(v, default) == IF v = None THEN default ELSE v[1]

merge_max(cli, cfgv) == PyOr(cli, cfgv)

\* the options after "Merge CLI options with config"
merge_options(a, cfg) ==
    [quality    |-> IF a.quality # DefaultQuality THEN a.quality
                    ELSE cfg_get(cfg.quality, DefaultQuality),
     max_width  |-> merge_max(a.max_width, cfg.max_width),
     max_height |-> merge_max(a.max_height, cfg.max_height),
     workers    |-> IF a.workers # DefaultWorkers THEN a.workers
                    ELSE cfg_get(cfg.workers, DefaultWorkers),
     skip_patterns |-> IF a.skip # <<>> THEN a.skip ELSE cfg.skip]

\* click's checks of the command line: INPUT_DIR exists and is a directory,
\* --quality lies in IntRange(1, 100), a --config path exists
usage_ok(a) ==
    /\ a.input_exists
    /\ a.quality >= MinQuality /\ a.quality <= MaxQuality
    /\ a.config # "missing"

\* the check left out
conflicting_never(a) == FALSE

\* --in-place together with --output
conflicting(a) == a.in_place /\ a.output

\* output_path of a run without conflict
choose_output(a) ==
    IF a.in_place THEN InputDir
    ELSE IF a.output THEN OtherDir ELSE InputDir \o <<optimized>>

\* the output directory is created before discovery
makes_output_dir(a) == ~a.dry_run /\ ~a.in_place

-----------------------------------------------------------------------------
(* ImageOptimizer.optimize_image *)

\* A file is [size, enc, fmt, time]: its byte size, the byte size of its
\* re-encoding under the run's options, the format the imaging library detects
\* ("corrupt": it cannot be opened, "none": none detected) and its timestamps
\* ("old": as found, "new": the time of the run).

SUPPORTED_FORMATS == {"PNG", "JPEG", "WEBP", "MPO"}

\* img.format, or the format of the extension when none is detected
detect_format(f, input_path) ==
    IF f.fmt # "none" THEN f.fmt
    ELSE LET ext == lower(suffix(name(input_path)))
         IN IF ext = <<".", "w", "e", "b", "p">> THEN "WEBP"
            ELSE IF ext = <<".", "p", "n", "g">> THEN "PNG"
            ELSE IF ext \in {<<".", "j", "p", "g">>, <<".", "j", "p", "e", "g">>}
                 THEN "JPEG"
            ELSE "none"

\* the format the buffer is saved in
save_format(img_format) ==
    IF img_format = "PNG" THEN "PNG"
    ELSE IF img_format = "WEBP" THEN "WEBP" ELSE "JPEG"

\* the test with > in place of >=
would_increase_size_gt(optimized_size, original_size) == optimized_size > original_size

\* the test that discards an encoding
would_increase_size(optimized_size, original_size) == optimized_size >= original_size

\* a save that ignores dry_run
saves_file_always(dry_run) == TRUE

\* the branch that saves the buffer
saves_file(dry_run) == ~dry_run

Failed(fsv, dirsv) ==
    [outcome |-> "failed", result |-> <<>>, fs |-> fsv, dirs |-> dirsv,
     original_size |-> None, optimized_size |-> None, wrote |-> FALSE, logged |-> 1]

\* the file system after the buffer is saved to output_path and the source's
\* timestamps, read after the save, are put on it
save_output(fsv, input_path, output_path, optimized_size, fmt) ==
    LET written == (output_path :>
                       [size |-> optimized_size, enc |-> optimized_size,
                        fmt |-> fmt, time |-> "new"]) @@ fsv
        stats == written[input_path]
    IN [written EXCEPT ![output_path].time = stats.time]

\* One call on the tree (fsv, dirsv). write_ok: the destination can be created.
optimize_image(input_path, output_path, dry_run, fsv, dirsv, write_ok) ==
    IF input_path \notin DOMAIN fsv \/ fsv[input_path].fmt = "corrupt"
    THEN Failed(fsv, dirsv)
    ELSE
    LET f == fsv[input_path]
        original_size == f.size
        img_format == detect_format(f, input_path)
        optimized_size == f.enc
    IN  IF img_format \notin SUPPORTED_FORMATS
        THEN [outcome |-> "unsupported", result |-> <<>>, fs |-> fsv, dirs |-> dirsv,
              original_size |-> Some(original_size), optimized_size |-> None,
              wrote |-> FALSE, logged |-> 1]
        ELSE IF would_increase_size(optimized_size, original_size)
        THEN [outcome |-> "would_increase_size", result |-> <<>>, fs |-> fsv,
              dirs |-> dirsv, original_size |-> Some(original_size),
              optimized_size |-> Some(optimized_size), wrote |-> FALSE, logged |-> 0]
        ELSE IF saves_file(dry_run) /\ ~write_ok
        THEN [Failed(fsv, dirsv) EXCEPT !.original_size = Some(original_size),
                                        !.optimized_size = Some(optimized_size)]
        ELSE [outcome |-> "optimized",
              result |-> <<[path |-> input_path, original_size |-> original_size,
                            optimized_size |-> optimized_size]>>,
              fs |-> IF saves_file(dry_run)
                     THEN save_output(fsv, input_path, output_path, optimized_size,
                                      save_format(img_format))
                     ELSE fsv,
              dirs |-> IF saves_file(dry_run)
                       THEN dirsv \cup Ancestors(parent(output_path))
                       ELSE dirsv,
              original_size |-> Some(original_size),
              optimized_size |-> Some(optimized_size),
              wrote |-> saves_file(dry_run), logged |-> 0]

-----------------------------------------------------------------------------
(* ImageOptimizer._resize_if_needed *)

\* int(x * (num / den)) for positive integers with num < den.  The quotient
\* and the product are doubles; for operands below 22, which the bounds of the
\* model stay under, the truncated product is the floor of x * num / den.
scale(x, num, den) == (x * num) \div den

\* the step "if self.max_width and width > self.max_width"
width_step(size, max_width) ==
    IF Truthy(max_width) /\ size.width > max_width[1]
    THEN [width |-> max_width[1],
          height |-> scale(size.height, max_width[1], size.width),
          needs_resize |-> TRUE]
    ELSE size

\* a resize that never looks at max_height
height_step_skipped(size, max_height) == size

\* the step "if self.max_height and height > self.max_height", on the
\* dimensions the width step left
height_step(size, max_height) ==
    IF Truthy(max_height) /\ size.height > max_height[1]
    THEN [width |-> scale(size.width, max_height[1], size.height),
          height |-> max_height[1],
          needs_resize |-> TRUE]
    ELSE size

\* the size of the image returned for an image of width x height, and whether
\* img.resize was called
_resize_if_needed(width, height, max_width, max_height) ==
    LET size == [width |-> width, height |-> height, needs_resize |-> FALSE]
    IN IF ~Truthy(max_width) /\ ~Truthy(max_height) THEN size
       ELSE height_step(width_step(size, max_width), max_height)

-----------------------------------------------------------------------------
(* ImageOptimizer.process_batch *)

\* the task of one file: its destination mirrors its path below input_dir
new_task(img_path, output_dir, input_dir) ==
    [src |-> img_path, dst |-> output_dir \o relative_to(img_path, input_dir),
     status |-> "queued", outcome |-> "none", original_size |-> None,
     optimized_size |-> None, wrote |-> FALSE]

parallel(workers) == workers > 1

Queued(ts) == {i \in DOMAIN ts : ts[i].status = "queued"}

Running(ts) == {i \in DOMAIN ts : ts[i].status = "running"}

Concluded(ts) == {i \in DOMAIN ts : ts[i].status = "done"}

\* a loop that takes the files from the end of the list
LastQueued(ts) == CHOOSE i \in Queued(ts) : \A j \in Queued(ts) : i >= j

\* the next file of the list
FirstQueued(ts) == CHOOSE i \in Queued(ts) : \A j \in Queued(ts) : i <= j

\* a loop that stops at the first failed file
batch_done_on_failure(ts) ==
    Concluded(ts) = DOMAIN ts \/ \E i \in DOMAIN ts : ts[i].outcome = "failed"

\* every submitted file has concluded
batch_done(ts) == Concluded(ts) = DOMAIN ts

\* the task record once its call has returned r
conclude(t, r) ==
    [t EXCEPT !.status = "done", !.outcome = r.outcome,
              !.original_size = r.original_size,
              !.optimized_size = r.optimized_size, !.wrote = r.wrote]

\* "if result: results.append(result)"
collect(res, r) == IF r.result # <<>> THEN res \o r.result ELSE res

RECURSIVE sum_of(_, _)
sum_of(res, field) ==
    IF res = <<>> THEN 0 ELSE res[1][field] + sum_of(Tail(res), field)

\* the numbers of the summary
summarize(res) ==
    [processed |-> Len(res),
     total_original |-> sum_of(res, "original_size"),
     total_optimized |-> sum_of(res, "optimized_size")]

-----------------------------------------------------------------------------
(* utils.py: calculate_savings and format_size *)

Abs(x) == IF x < 0 THEN 0 - x ELSE x

RECURSIVE gcd(_, _)
gcd(a, b) == IF b = 0 THEN a ELSE gcd(b, a % b)

\* the number n / d, d > 0, in lowest terms.  A float result is kept as the
\* exact quotient it approximates.
ratio(n, d) ==
    LET g == gcd(Abs(n), d)
    IN [num |-> n \div g, den |-> d \div g]

\* the share that is left instead of the share that is saved
calculate_savings_left(original_size, optimized_size) ==
    IF original_size = 0 THEN ratio(0, 1)
    ELSE LET q == ratio(optimized_size, original_size)
         IN ratio(q.num * 100, q.den)

\* calculate_savings(original, optimized):
\* ((original - optimized) / original) * 100, or 0.0 for original == 0
calculate_savings(original_size, optimized_size) ==
    IF original_size = 0 THEN ratio(0, 1)
    ELSE LET q == ratio(original_size - optimized_size, original_size)
         IN ratio(q.num * 100, q.den)

BYTES_PER_KB == 1024

SIZE_UNITS == << <<"B">>, <<"K", "B">>, <<"M", "B">>, <<"G", "B">>, <<"T", "B">> >>

\* A byte count is the sequence of its digits to the base BYTES_PER_KB, most
\* significant first, <<0>> for zero.  A size is such a count divided by a
\* power of BYTES_PER_KB: int holds the digits before the point, frac those
\* after it.  Divisions by 1024 are exact in a double.

\* float(bytes_size), for a count that a double holds exactly
to_float(bytes_size) == [int |-> bytes_size, frac |-> <<>>]

\* the test with <= in place of <
below_kb_or_equal(size) ==
    Len(size.int) <= 1
    \/ (size.int = <<1, 0>> /\ \A i \in DOMAIN size.frac : size.frac[i] = 0)

\* size < BYTES_PER_KB
below_kb(size) == Len(size.int) <= 1

\* size /= BYTES_PER_KB
div_kb(size) ==
    [int |-> IF Len(size.int) = 1 THEN <<0>>
             ELSE SubSeq(size.int, 1, Len(size.int) - 1),
     frac |-> <<size.int[Len(size.int)]>> \o size.frac]

RECURSIVE digits_value(_)
\* the integer a digit sequence stands for
digits_value(ds) ==
    IF ds = <<>> THEN 0
    ELSE digits_value(SubSeq(ds, 1, Len(ds) - 1)) * BYTES_PER_KB + ds[Len(ds)]

RECURSIVE times_frac(_, _)
\* m times the fraction 0.frac: its integer part, and whether a remainder is left
times_frac(frac, m) ==
    IF frac = <<>> THEN [carry |-> 0, inexact |-> FALSE]
    ELSE LET t == times_frac(Tail(frac), m)
             v == Head(frac) * m + t.carry
         IN [carry |-> v \div BYTES_PER_KB,
             inexact |-> t.inexact \/ v % BYTES_PER_KB # 0]

\* the hundredths of 0.frac, rounded to nearest, a tie to the even neighbour
hundredths(frac) ==
    LET t == times_frac(frac, 200)
        h == t.carry \div 2
    IN IF t.carry % 2 = 1 /\ (t.inexact \/ h % 2 = 1) THEN h + 1 ELSE h

DigitChars == <<"0", "1", "2", "3", "4", "5", "6", "7", "8", "9">>

RECURSIVE decimal(_)
\* str(n) for n >= 0
decimal(n) ==
    IF n < 10 THEN <<DigitChars[n + 1]>>
    ELSE decimal(n \div 10) \o <<DigitChars[(n % 10) + 1]>>

\* f"{size:.2f} {unit}"
format_2f(size, unit) ==
    LET h == hundredths(size.frac)
        whole == digits_value(size.int) + (IF h = 100 THEN 1 ELSE 0)
        cents == IF h = 100 THEN 0 ELSE h
    IN decimal(whole) \o <<".">> \o decimal(cents \div 10) \o decimal(cents % 10)
       \o <<" ">> \o unit

RECURSIVE format_from(_, _)
\* the loop over SIZE_UNITS[:-1] and the return after it
format_from(size, units) ==
    IF Len(units) = 1 THEN format_2f(size, units[1])
    ELSE IF below_kb(size) THEN format_2f(size, Head(units))
    ELSE format_from(div_kb(size), Tail(units))

format_size(bytes_size) == format_from(to_float(bytes_size), SIZE_UNITS)

-----------------------------------------------------------------------------
(* The inputs of a run *)

FileKinds(fmt) ==
    {[size |-> s, enc |-> e, fmt |-> fmt, time |-> "old"] :
        s \in 1..MaxSize, e \in 1..MaxSize}
    \cup {[size |-> 1, enc |-> 1, fmt |-> "corrupt", time |-> "old"],
          [size |-> MaxSize, enc |-> 1, fmt |-> "GIF", time |-> "old"]}

Shrinking(fmt) == [size |-> MaxSize, enc |-> 1, fmt |-> fmt, time |-> "old"]

\* the tree that holds the files of m, a function from paths to <<>> (absent)
\* or <<file>>
TreeOf(m) ==
    LET present == {p \in DOMAIN m : m[p] # <<>>}
    IN [fs |-> [p \in present |-> m[p][1]],
        dirs |-> {InputDir} \cup {parent(p) : p \in present}]

NoTree == [fs |-> <<>>, dirs |-> {}]

Maybe(S) == {<<>>} \cup {<<x>> : x \in S}

\* trees of a run: any kind of a.png, c.JPG and a file in a directory named
\* like a png
Layouts ==
    {TreeOf((F_a :> ka) @@ (F_c :> kc) @@ (F_w :> kw)) :
        ka \in Maybe(FileKinds("PNG")),
        kc \in Maybe({Shrinking("MPO"), [Shrinking("JPEG") EXCEPT !.fmt = "corrupt"]}),
        kw \in Maybe({Shrinking("none")})}

SmallLayouts ==
    {TreeOf((F_a :> ka) @@ (F_c :> <<Shrinking("JPEG")>>)) :
        ka \in Maybe({Shrinking("PNG")})}

\* trees for discovery: each of the six files present or not
DiscoverLayouts ==
    {TreeOf([p \in {F_a, F_b, F_c, F_t, F_s, F_w} |->
                IF p \in S THEN <<Shrinking("PNG")>> ELSE <<>>]) :
        S \in SUBSET {F_a, F_b, F_c, F_t, F_s, F_w}}

Pat_cAny == <<"c", ".", "*">>

Pat_png == <<"*", ".", "p", "n", "g">>

Pat_sub == <<"*", "/", "s", "/", "*">>

RunConfig == [EmptyConfig EXCEPT !.quality = Some(80), !.skip = <<Pat_cAny>>]

\* command lines of a run
RunArgs ==
    [input_exists : BOOLEAN, output : BOOLEAN, quality : {DefaultQuality, MaxQuality + 1},
     recursive : BOOLEAN, dry_run : BOOLEAN, in_place : BOOLEAN,
     max_width : {None}, max_height : {None}, workers : 1..MaxWorkers,
     log_file : BOOLEAN, skip : {<<>>}, config : {"none", "missing", "path"}]

RunEnvs ==
    [fold : BOOLEAN, yaml : {TRUE}, cfg_state : {"absent", "malformed", "ok"},
     cfg : {RunConfig}]

\* --config names the file consulted; without it, in these runs, the working
\* directory holds no .img-optimize.yaml
Consistent(a, e) ==
    /\ a.config = "path" => e.cfg_state \in {"malformed", "ok"}
    /\ a.config = "missing" => e.cfg_state = "absent"

RunConsistent(a, e) == Consistent(a, e) /\ (a.config = "none" => e.cfg_state = "absent")

\* A run that is rejected before discovery never reads the tree: such runs are
\* enumerated over the small trees only.
RunLayouts(a, e) ==
    IF ~a.input_exists THEN {NoTree}
    ELSE IF ~usage_ok(a) \/ load_config(e).error THEN SmallLayouts
    ELSE Layouts

InitRest ==
    /\ logFile = [exists |-> FALSE, lines |-> 0]
    /\ pc = "start"
    /\ exit_code = None
    /\ console = {}
    /\ eff = merge_options([quality |-> DefaultQuality, max_width |-> None,
                            max_height |-> None, workers |-> DefaultWorkers,
                            skip |-> <<>>], EmptyConfig)
    /\ out_path = <<>>
    /\ image_files = <<>>
    /\ tasks = <<>>
    /\ results = <<>>
    /\ summary = <<>>
    /\ init_fs = [fs |-> fs, dirs |-> dirs]
    /\ call = <<>>
    /\ ret = <<>>

Init ==
    /\ args \in RunArgs
    /\ env \in RunEnvs
    /\ RunConsistent(args, env)
    /\ \E l \in RunLayouts(args, env) : fs = l.fs /\ dirs = l.dirs
    /\ InitRest

-----------------------------------------------------------------------------
(* The command optimize, step by step *)

\* the process ends with this code: 0 a return, 1 an exception, 2 a usage error
Exit(code) == pc' = "exited" /\ exit_code' = Some(code)

\* click checks the command line before the body runs
Parse ==
    /\ pc = "start"
    /\ IF usage_ok(args)
       THEN pc' = "config" /\ exit_code' = exit_code
       ELSE Exit(2)
    /\ UNCHANGED <<args, env, fs, dirs, logFile, console, eff, out_path,
                   image_files, tasks, results, summary, init_fs, call, ret>>

\* load the config file and merge it with the command line
LoadConfig ==
    /\ pc = "config"
    /\ LET r == load_config(env)
       IN IF r.error
          THEN Exit(1) /\ eff' = eff
          ELSE /\ eff' = merge_options(args, r.cfg)
               /\ pc' = "logging"
               /\ exit_code' = exit_code
    /\ UNCHANGED <<args, env, fs, dirs, logFile, console, out_path,
                   image_files, tasks, results, summary, init_fs, call, ret>>

\* the file handler opens the log file as soon as it is constructed
SetupLogging ==
    /\ pc = "logging"
    /\ logFile' = IF args.log_file THEN [logFile EXCEPT !.exists = TRUE] ELSE logFile
    /\ pc' = "mode"
    /\ UNCHANGED <<args, env, fs, dirs, exit_code, console, eff, out_path,
                   image_files, tasks, results, summary, init_fs, call, ret>>

\* in-place handling and the creation of the output directory
HandleMode ==
    /\ pc = "mode"
    /\ IF conflicting(args)
       THEN /\ console' = console \cup {"conflict"}
            /\ Exit(0)
            /\ UNCHANGED <<out_path, dirs>>
       ELSE /\ out_path' = choose_output(args)
            /\ console' = console
            /\ IF makes_output_dir(args)
               THEN \E mkdir_ok \in BOOLEAN :
                       IF mkdir_ok
                       THEN /\ dirs' = dirs \cup Ancestors(choose_output(args))
                            /\ pc' = "discover"
                            /\ exit_code' = exit_code
                       ELSE Exit(1) /\ dirs' = dirs
               ELSE /\ dirs' = dirs
                    /\ pc' = "discover"
                    /\ exit_code' = exit_code
    /\ UNCHANGED <<args, env, fs, logFile, eff, image_files, tasks, results,
                   summary, init_fs, call, ret>>

\* the messages printed once files are found
found_messages(a, workers) ==
    {"found"} \cup (IF a.dry_run THEN {"dry_run"} ELSE {})
              \cup (IF a.in_place THEN {"in_place"} ELSE {})
              \cup (IF parallel(workers) THEN {"workers"} ELSE {})

\* collect the image files; none found ends the run
Discover ==
    /\ pc = "discover"
    /\ LET found == discover(fs, dirs, InputDir, args.recursive,
                             eff.skip_patterns, env.fold)
       IN /\ image_files' = found
          /\ IF found = <<>>
             THEN console' = console \cup {"no_images"} /\ Exit(0)
             ELSE /\ console' = console \cup found_messages(args, eff.workers)
                  /\ pc' = "process"
                  /\ exit_code' = exit_code
    /\ UNCHANGED <<args, env, fs, dirs, logFile, eff, out_path, tasks, results,
                   summary, init_fs, call, ret>>

\* process_batch is entered: one task per listed file
BeginBatch ==
    /\ pc = "process"
    /\ tasks' = [i \in 1..Len(image_files) |->
                    new_task(image_files[i], out_path, InputDir)]
    /\ results' = <<>>
    /\ pc' = "batch"
    /\ UNCHANGED <<args, env, fs, dirs, logFile, exit_code, console, eff,
                   out_path, image_files, summary, init_fs, call, ret>>

\* task i runs optimize_image and its result is collected
RunTask(i, write_ok) ==
    LET r == optimize_image(tasks[i].src, tasks[i].dst, args.dry_run, fs, dirs,
                            write_ok)
    IN /\ fs' = r.fs
       /\ dirs' = r.dirs
       /\ logFile' = IF args.log_file
                     THEN [logFile EXCEPT !.lines = @ + r.logged]
                     ELSE logFile
       /\ tasks' = [tasks EXCEPT ![i] = conclude(@, r)]
       /\ results' = collect(results, r)

\* one iteration of the sequential loop
SequentialStep ==
    /\ pc = "batch"
    /\ ~parallel(eff.workers)
    /\ Queued(tasks) # {}
    /\ \E write_ok \in BOOLEAN : RunTask(FirstQueued(tasks), write_ok)
    /\ UNCHANGED <<args, env, pc, exit_code, console, eff, out_path,
                   image_files, summary, init_fs, call, ret>>

\* a free worker of the pool takes the next submitted task
StartTask ==
    /\ pc = "batch"
    /\ parallel(eff.workers)
    /\ Queued(tasks) # {}
    /\ Cardinality(Running(tasks)) < eff.workers
    /\ tasks' = [tasks EXCEPT ![FirstQueued(tasks)].status = "running"]
    /\ UNCHANGED <<args, env, fs, dirs, logFile, pc, exit_code, console, eff,
                   out_path, image_files, results, summary, init_fs, call, ret>>

\* a running task completes and as_completed hands its result over
FinishTask ==
    /\ pc = "batch"
    /\ parallel(eff.workers)
    /\ \E i \in Running(tasks) : \E write_ok \in BOOLEAN : RunTask(i, write_ok)
    /\ UNCHANGED <<args, env, pc, exit_code, console, eff, out_path,
                   image_files, summary, init_fs, call, ret>>

\* process_batch returns and the summary is printed
Summarize ==
    /\ pc = "batch"
    /\ batch_done(tasks)
    /\ summary' = <<summarize(results)>>
    /\ console' = console \cup {"summary"}
    /\ Exit(0)
    /\ UNCHANGED <<args, env, fs, dirs, logFile, eff, out_path, image_files,
                   tasks, results, init_fs, call, ret>>

Next ==
    \/ Parse
    \/ LoadConfig
    \/ SetupLogging
    \/ HandleMode
    \/ Discover
    \/ BeginBatch
    \/ SequentialStep
    \/ StartTask
    \/ FinishTask
    \/ Summarize

Spec == Init /\ [][Next]_vars

-----------------------------------------------------------------------------
(* Runs with a valid command line and no config file: the batch *)

BatchArgs ==
    [input_exists : {TRUE}, output : {FALSE}, quality : {DefaultQuality},
     recursive : {FALSE}, dry_run : BOOLEAN, in_place : BOOLEAN,
     max_width : {None}, max_height : {None}, workers : 1..MaxWorkers,
     log_file : {FALSE}, skip : {<<>>}, config : {"none"}]

BatchEnvs ==
    [fold : BOOLEAN, yaml : {TRUE}, cfg_state : {"absent"}, cfg : {EmptyConfig}]

BatchInit ==
    /\ args \in BatchArgs
    /\ env \in BatchEnvs
    /\ \E l \in Layouts : fs = l.fs /\ dirs = l.dirs
    /\ InitRest

\* the process runs on: a step that can be taken is taken
BatchSpec == BatchInit /\ [][Next]_vars /\ WF_vars(Next)

-----------------------------------------------------------------------------
(* Runs that draw the command line and the config file: merging *)

MergeArgs ==
    [input_exists : {TRUE}, output : {FALSE}, quality : {DefaultQuality, 70},
     recursive : {FALSE}, dry_run : {TRUE}, in_place : {FALSE},
     max_width : {None, Some(0), Some(100)}, max_height : {None, Some(100)},
     workers : 0..MaxWorkers, log_file : {FALSE}, skip : {<<>>, <<Pat_png>>},
     config : {"none", "path"}]

MergeConfigs ==
    [quality : {None, Some(80), Some(500)}, max_width : {None, Some(500)},
     max_height : {None, Some(500)}, workers : {None, Some(0)},
     skip : {<<>>, <<Pat_cAny>>}]

MergeEnvs ==
    [fold : {FALSE}, yaml : BOOLEAN, cfg_state : {"absent", "malformed", "ok"},
     cfg : MergeConfigs]

MergeInit ==
    /\ args \in MergeArgs
    /\ env \in MergeEnvs
    /\ Consistent(args, env)
    /\ env.cfg_state # "ok" => env.cfg = EmptyConfig
    /\ LET l == TreeOf(F_a :> <<Shrinking("PNG")>>)
       IN fs = l.fs /\ dirs = l.dirs
    /\ InitRest

MergeSpec == MergeInit /\ [][Next]_vars

-----------------------------------------------------------------------------
(* Runs that draw the tree: discovery *)

DiscoverArgs ==
    [input_exists : {TRUE}, output : {FALSE}, quality : {DefaultQuality},
     recursive : BOOLEAN, dry_run : {TRUE}, in_place : {FALSE},
     max_width : {None}, max_height : {None}, workers : {DefaultWorkers},
     log_file : {FALSE}, skip : {<<>>, <<Pat_sub>>, <<Pat_cAny>>},
     config : {"none"}]

DiscoverEnvs ==
    [fold : BOOLEAN, yaml : {TRUE}, cfg_state : {"absent"}, cfg : {EmptyConfig}]

DiscoverInit ==
    /\ args \in DiscoverArgs
    /\ env \in DiscoverEnvs
    /\ \E l \in DiscoverLayouts : fs = l.fs /\ dirs = l.dirs
    /\ InitRest

DiscoverNext ==
    \/ Parse
    \/ LoadConfig
    \/ SetupLogging
    \/ HandleMode
    \/ Discover

DiscoverSpec == DiscoverInit /\ [][DiscoverNext]_vars

-----------------------------------------------------------------------------
(* Runs that draw the state of the config file and of the yaml module *)

ConfigArgs ==
    [input_exists : {TRUE}, output : BOOLEAN, quality : {DefaultQuality},
     recursive : {FALSE}, dry_run : BOOLEAN, in_place : {FALSE},
     max_width : {None}, max_height : {None}, workers : 1..MaxWorkers,
     log_file : BOOLEAN, skip : {<<>>}, config : {"none", "path"}]

ConfigEnvs ==
    [fold : {FALSE}, yaml : BOOLEAN, cfg_state : {"absent", "malformed", "ok"},
     cfg : {RunConfig}]

ConfigInit ==
    /\ args \in ConfigArgs
    /\ env \in ConfigEnvs
    /\ Consistent(args, env)
    /\ \E l \in SmallLayouts : fs = l.fs /\ dirs = l.dirs
    /\ InitRest

ConfigSpec == ConfigInit /\ [][Next]_vars

-----------------------------------------------------------------------------
(* Direct calls of _resize_if_needed, calculate_savings and format_size *)

\* max_width and max_height of an optimizer: None, 0 or a limit
Limits == {None} \cup {Some(n) : n \in 0..MaxDim}

ResizeCalls ==
    [fn : {"_resize_if_needed"}, width : 1..MaxDim, height : 1..MaxDim,
     max_width : Limits, max_height : Limits]

SavingsCalls ==
    [fn : {"calculate_savings"}, original : (0..MaxBytes) \cup {500, 750, 1000},
     optimized : (0..MaxBytes) \cup {500, 750, 1000}]

\* the digits that byte counts are made of
Digits == {0, 1, BYTES_PER_KB \div 2, BYTES_PER_KB - 1}

\* the number of digits from the first to the last one that is not 0
SignificantDigits(ds) ==
    LET nz == {i \in DOMAIN ds : ds[i] # 0}
    IN IF nz = {} THEN 0 ELSE CHOOSE i \in nz : \A j \in nz : j <= i

\* a double holds 53 significant bits and a digit is 10 bits
ExactAsFloat(ds) == SignificantDigits(ds) * 10 <= 53

ByteCounts ==
    {ds \in UNION {[1..k -> Digits] : k \in 1..MaxDigits} :
        /\ Len(ds) > 1 => ds[1] # 0
        /\ ExactAsFloat(ds)}

FormatCalls == [fn : {"format_size"}, bytes_size : ByteCounts]

CallInit ==
    /\ call \in ResizeCalls \cup SavingsCalls \cup FormatCalls
    /\ ret = <<>>
    /\ pc = "call"
    /\ args = <<>>
    /\ env = <<>>
    /\ fs = <<>>
    /\ dirs = {}
    /\ logFile = [exists |-> FALSE, lines |-> 0]
    /\ exit_code = None
    /\ console = {}
    /\ eff = <<>>
    /\ out_path = <<>>
    /\ image_files = <<>>
    /\ tasks = <<>>
    /\ results = <<>>
    /\ summary = <<>>
    /\ init_fs = <<>>

\* the call returns v
Return(v) ==
    /\ ret' = <<v>>
    /\ pc' = "returned"
    /\ UNCHANGED <<args, env, fs, dirs, logFile, exit_code, console, eff,
                   out_path, image_files, tasks, results, summary, init_fs, call>>

CallResize ==
    /\ pc = "call"
    /\ call.fn = "_resize_if_needed"
    /\ Return(_resize_if_needed(call.width, call.height, call.max_width,
                                call.max_height))

CallSavings ==
    /\ pc = "call"
    /\ call.fn = "calculate_savings"
    /\ Return(calculate_savings(call.original, call.optimized))

CallFormat ==
    /\ pc = "call"
    /\ call.fn = "format_size"
    /\ Return(format_size(call.bytes_size))

CallNext ==
    \/ CallResize
    \/ CallSavings
    \/ CallFormat

CallSpec == CallInit /\ [][CallNext]_vars

-----------------------------------------------------------------------------
(* Properties *)

Exited == pc = "exited"

BatchReturned == pc = "exited" /\ summary # <<>>

Successes(ts) == {i \in DOMAIN ts : ts[i].outcome = "optimized"}

\* the path holds what it held before the run
Untouched(p) ==
    /\ p \in DOMAIN fs <=> p \in DOMAIN init_fs.fs
    /\ p \in DOMAIN fs => fs[p] = init_fs.fs[p]

NotSmaller(t) ==
    /\ t.status = "done"
    /\ t.original_size # None
    /\ t.optimized_size # None
    /\ t.optimized_size[1] >= t.original_size[1]

\* C1: a file whose encoding is not strictly smaller than the original yields
\* no result, is not counted, and nothing is written at its destination, in
\* every mode; every result has optimized_size < original_size.
C1_NoResultUnlessSmaller ==
    /\ \A i \in DOMAIN tasks :
          NotSmaller(tasks[i]) =>
             /\ tasks[i].outcome = "would_increase_size"
             /\ ~tasks[i].wrote
             /\ (\A j \in DOMAIN tasks : tasks[j].dst = tasks[i].dst => ~tasks[j].wrote)
                   => Untouched(tasks[i].dst)
    /\ Len(results) = Cardinality(Successes(tasks))
    /\ \A k \in DOMAIN results :
          results[k].optimized_size < results[k].original_size

\* a finished run that is not a dry run, with a file whose encoding has exactly
\* the original size
C1_Witness ==
    /\ Exited
    /\ ~args.dry_run
    /\ \E i \in DOMAIN tasks :
          /\ tasks[i].outcome = "would_increase_size"
          /\ tasks[i].optimized_size = tasks[i].original_size
    /\ results # <<>>

ResultsExact ==
    /\ Concluded(tasks) = DOMAIN tasks
    /\ Len(results) = Cardinality(Successes(tasks))
    /\ {results[k].path : k \in DOMAIN results} = {tasks[i].src : i \in Successes(tasks)}
    /\ \A k \in DOMAIN results :
          \E i \in Successes(tasks) :
             /\ results[k].path = tasks[i].src
             /\ Some(results[k].original_size) = tasks[i].original_size
             /\ Some(results[k].optimized_size) = tasks[i].optimized_size

\* a step in which task i concludes without a result
ConcludesWithoutResult(i) ==
    /\ tasks[i].status # "done"
    /\ tasks'[i].status = "done"
    /\ tasks'[i].outcome # "optimized"

\* C2: process_batch terminates after every submitted file has concluded; a
\* failed or skipped file neither aborts the batch nor changes anything another
\* file depends on, and the results are exactly the successful files.
C2_BatchCompletes ==
    /\ [](BatchReturned => ResultsExact)
    /\ (pc = "batch") ~> BatchReturned
    /\ [][\A i \in DOMAIN tasks :
             ConcludesWithoutResult(i) =>
                /\ fs' = fs
                /\ dirs' = dirs
                /\ results' = results
                /\ pc' = pc
                /\ \A j \in DOMAIN tasks \ {i} : tasks'[j] = tasks[j]]_vars

\* a sequential batch that has returned, in which a file failed and a later
\* file was optimized
C2_Witness ==
    /\ BatchReturned
    /\ ~parallel(eff.workers)
    /\ \E i, j \in DOMAIN tasks :
          i < j /\ tasks[i].outcome = "failed" /\ tasks[j].outcome = "optimized"

\* C3 as stated: a dry run leaves the disk exactly as it was, whatever the
\* other options, --log-file included.
C3_DryRunCreatesNoFile ==
    args.dry_run =>
       /\ fs = init_fs.fs
       /\ dirs = init_fs.dirs
       /\ ~logFile.exists

\* C3, amended: a dry run creates no directory and writes no image file, and
\* every file of the tree keeps its content and timestamps; the log file named
\* by --log-file is the only file it may create.
C3_DryRunWritesNoImage ==
    args.dry_run =>
       /\ fs = init_fs.fs
       /\ dirs = init_fs.dirs
       /\ logFile.exists => args.log_file

\* a finished dry run that counted a file and opened its log file
C3_Witness ==
    /\ Exited
    /\ args.dry_run
    /\ results # <<>>
    /\ logFile.exists

RECURSIVE dry_results(_, _, _, _)
\* the results of a dry run of process_batch over files, from the tree (fsv, dirsv)
dry_results(files, output_dir, fsv, dirsv) ==
    IF files = <<>> THEN <<>>
    ELSE optimize_image(Head(files),
                        output_dir \o relative_to(Head(files), InputDir),
                        TRUE, fsv, dirsv, TRUE).result
         \o dry_results(Tail(files), output_dir, fsv, dirsv)

\* the summary a dry run prints for the same tree and options: none when no
\* image file is found
DryRunSummary ==
    LET files == discover(init_fs.fs, init_fs.dirs, InputDir, args.recursive,
                          eff.skip_patterns, env.fold)
    IN IF files = <<>> THEN <<>>
       ELSE <<summarize(dry_results(files, choose_output(args), init_fs.fs,
                                    init_fs.dirs))>>

\* C4: a dry run and a run that is not dry, from the same directory and
\* options, report the same summary numbers, also when a write fails.
C4_DryRunSameSummary ==
    BatchReturned => summary = DryRunSummary

Discovered == pc = "process" \/ (pc = "exited" /\ "no_images" \in console)

Listed == {image_files[k] : k \in DOMAIN image_files}

HasListedExtension(p) ==
    \E k \in DOMAIN extensions : fnmatch(name(p), extensions[k], env.fold)

\* C5: without --recursive only entries directly in the input directory are
\* listed; with it, every file with an image extension that is not skipped, at
\* any depth, direct children included.
C5_DiscoveryDepth ==
    Discovered =>
       IF ~args.recursive
       THEN \A f \in Listed : parent(f) = InputDir
       ELSE Listed = {p \in DOMAIN fs :
                         /\ IsUnder(p, InputDir)
                         /\ HasListedExtension(p)
                         /\ ~should_skip(p, eff.skip_patterns, env.fold)}

ImageSuffixes ==
    {<<".", "p", "n", "g">>, <<".", "j", "p", "g">>, <<".", "j", "p", "e", "g">>,
     <<".", "w", "e", "b", "p">>}

\* C6: every file of the searched directory whose extension is png, jpg, jpeg
\* or webp in any mix of upper and lower case is listed, unless skipped.
C6_CaseInsensitive ==
    (Discovered /\ ~args.recursive) =>
       \A p \in DOMAIN fs :
          (/\ parent(p) = InputDir
           /\ lower(suffix(name(p))) \in ImageSuffixes
           /\ ~should_skip(p, eff.skip_patterns, env.fold))
             => p \in Listed

\* the mapping load_config returns when it returns one
FileConfig == IF env.yaml /\ env.cfg_state = "ok" THEN env.cfg ELSE EmptyConfig

\* the limit a max_width or max_height value stands for: None and 0 set none
Limit(x) == IF Truthy(x) THEN x ELSE None

\* C7: each effective option is the command line's value when that differs from
\* its default, else the config file's value when the key is present, else the
\* default; a command-line skip list replaces the config's. (max_width and
\* max_height are compared as the limits they stand for.)
C7_MergePrecedence ==
    pc = "logging" =>
       /\ eff.quality = IF args.quality # DefaultQuality THEN args.quality
                        ELSE IF FileConfig.quality # None THEN FileConfig.quality[1]
                        ELSE DefaultQuality
       /\ eff.workers = IF args.workers # DefaultWorkers THEN args.workers
                        ELSE IF FileConfig.workers # None THEN FileConfig.workers[1]
                        ELSE DefaultWorkers
       /\ Limit(eff.max_width) = Limit(IF args.max_width # None THEN args.max_width
                                       ELSE FileConfig.max_width)
       /\ Limit(eff.max_height) = Limit(IF args.max_height # None THEN args.max_height
                                        ELSE FileConfig.max_height)
       /\ eff.skip_patterns = IF args.skip # <<>> THEN args.skip ELSE FileConfig.skip

\* C8: the options the optimizer works with satisfy 1 <= quality <= 100 and
\* workers >= 1 in every run that reaches processing.
C8_EffectiveInRange ==
    pc \in {"process", "batch"} =>
       /\ eff.quality \in MinQuality..MaxQuality
       /\ eff.workers >= 1

C10_ConflictDoesNothing ==
    (args.in_place /\ args.output) =>
       /\ image_files = <<>>
       /\ tasks = <<>>
       /\ results = <<>>
       /\ summary = <<>>
       /\ fs = init_fs.fs
       /\ dirs = init_fs.dirs
       /\ (Exited /\ exit_code = Some(0)) => "conflict" \in console

\* a finished run with both options that is not a dry run, on a tree with an
\* image that would shrink
C10_Witness ==
    /\ Exited
    /\ args.in_place /\ args.output
    /\ ~args.dry_run
    /\ "conflict" \in console
    /\ F_a \in DOMAIN fs
    /\ fs[F_a].enc < fs[F_a].size

MalformedConfig == env.cfg_state = "malformed"

\* no processing has happened: no directory created, no listing, no task, no
\* write, and the run does not end with code 0
NothingProcessed ==
    /\ fs = init_fs.fs
    /\ dirs = init_fs.dirs
    /\ image_files = <<>>
    /\ tasks = <<>>
    /\ results = <<>>
    /\ summary = <<>>
    /\ Exited => exit_code # Some(0)

\* C11 as stated: whenever the config file exists and cannot be parsed, the
\* run aborts before any processing.
C11_MalformedConfigAborts ==
    MalformedConfig => NothingProcessed

\* C11, amended: when the yaml module is importable, a config file that cannot
\* be parsed aborts the run before the log file is opened, the output directory
\* is created, a file is listed or an image is transcoded, with a non-zero exit
\* code; when the module is not importable the file is not read and the options
\* are those of the command line and the defaults.
C11_MalformedConfigAbortsWithYaml ==
    /\ (env.yaml /\ MalformedConfig) =>
          /\ NothingProcessed
          /\ ~logFile.exists
          /\ pc \in {"start", "config", "exited"}
    /\ (~env.yaml /\ pc \notin {"start", "config"} /\ exit_code # Some(2))
          => eff = merge_options(args, EmptyConfig)

\* a run that is not a dry run, with --log-file, ended by the parser's
\* exception on a tree with an image that would shrink
C11_Witness ==
    /\ Exited
    /\ env.yaml /\ MalformedConfig
    /\ ~args.dry_run /\ args.log_file
    /\ exit_code = Some(1)
    /\ F_c \in DOMAIN fs

\* C12: after a successful call that is not a dry run, the destination carries
\* the timestamps the source file had before the call, in every mode, in-place
\* included.
C12_TimestampsPreserved ==
    \A i \in DOMAIN tasks :
       (tasks[i].outcome = "optimized" /\ tasks[i].wrote) =>
          /\ tasks[i].dst \in DOMAIN fs
          /\ fs[tasks[i].dst].time = init_fs.fs[tasks[i].src].time

Returned(fn) == pc = "returned" /\ call.fn = fn

Resized == ret[1]

\* the width step acts and leaves a height within max_height, rounded up or down
WidthBound ==
    /\ Truthy(call.max_width)
    /\ call.width > call.max_width[1]
    /\ Truthy(call.max_height) =>
          (call.height * call.max_width[1] + call.width - 1) \div call.width
             <= call.max_height[1]

\* n is x / d rounded to a nearest integer
IsRounded(n, x, d) == 2 * Abs(n * d - x) <= d

\* C13: for a width-bound resize the new width is max_width and the new height
\* is round(height * max_width / width).
C13_WidthBoundRounds ==
    (Returned("_resize_if_needed") /\ WidthBound) =>
       /\ Resized.width = call.max_width[1]
       /\ IsRounded(Resized.height, call.height * call.max_width[1], call.width)

\* C14: the returned dimensions are within max_width and max_height where
\* these are set, whichever steps acted, and an image within both limits
\* keeps its dimensions and is not resized.
C14_WithinLimits ==
    Returned("_resize_if_needed") =>
       /\ Truthy(call.max_width) => Resized.width <= call.max_width[1]
       /\ Truthy(call.max_height) => Resized.height <= call.max_height[1]
       /\ (/\ Truthy(call.max_width) => call.width <= call.max_width[1]
           /\ Truthy(call.max_height) => call.height <= call.max_height[1])
             => /\ Resized.width = call.width
                /\ Resized.height = call.height
                /\ ~Resized.needs_resize

\* a call in which the width step leaves a height above max_height and the
\* height step corrects it
C14_Witness ==
    /\ Returned("_resize_if_needed")
    /\ Truthy(call.max_width) /\ Truthy(call.max_height)
    /\ call.width > call.max_width[1]
    /\ width_step([width |-> call.width, height |-> call.height,
                   needs_resize |-> FALSE], call.max_width).height
          > call.max_height[1]
    /\ Resized.height = call.max_height[1]
    /\ Resized.width < call.max_width[1]

\* C15: each task's destination is the output root joined with the file's path
\* relative to the input root, every file is listed at most once, and no two
\* tasks of a batch have the same destination.
C15_DistinctDestinations ==
    /\ \A i, j \in DOMAIN image_files :
          image_files[i] = image_files[j] => i = j
    /\ \A i \in DOMAIN tasks :
          tasks[i].dst = out_path \o relative_to(tasks[i].src, InputDir)
    /\ \A i, j \in DOMAIN tasks :
          tasks[i].dst = tasks[j].dst => i = j

Savings == ret[1]

\* C16: calculate_savings returns 0 for original = 0 and for optimized =
\* original, 100 for optimized = 0 < original, (original - optimized) * 100 /
\* original for original > 0 (50 for (1000, 500)), and a value in [0, 100] for
\* 0 <= optimized <= original.
C16_SavingsFormula ==
    Returned("calculate_savings") =>
       /\ call.original = 0 => Savings.num = 0
       /\ call.optimized = call.original => Savings.num = 0
       /\ (call.optimized = 0 /\ call.original > 0) => Savings.num = 100 * Savings.den
       /\ call.original > 0 =>
             Savings.num * call.original
                = (call.original - call.optimized) * 100 * Savings.den
       /\ (call.original = 1000 /\ call.optimized = 500) =>
             Savings = [num |-> 50, den |-> 1]
       /\ (0 <= call.optimized /\ call.optimized <= call.original) =>
             /\ 0 <= Savings.num
             /\ Savings.num <= 100 * Savings.den
       /\ Savings.den > 0

\* a call that returns a third saved, 100/3 percent
C16_Witness ==
    /\ Returned("calculate_savings")
    /\ call.original = 3 /\ call.optimized = 2
    /\ Savings = [num |-> 100, den |-> 3]

\* 1024^k as a byte count
Threshold(k) == <<1>> \o [i \in 1..k |-> 0]

\* a < b for two byte counts
LessCount(a, b) ==
    \/ Len(a) < Len(b)
    \/ /\ Len(a) = Len(b)
       /\ \E i \in DOMAIN a :
             /\ a[i] < b[i]
             /\ \A j \in 1..(i - 1) : a[j] = b[j]

\* how many of the thresholds 1024, 1024^2, 1024^3, 1024^4 the count has reached
UnitPower(n) ==
    Cardinality({k \in 1..(Len(SIZE_UNITS) - 1) : ~LessCount(n, Threshold(k))})

RECURSIVE decimal_value(_)
\* the number a text of decimal digits stands for
decimal_value(t) ==
    IF t = <<>> THEN 0
    ELSE decimal_value(SubSeq(t, 1, Len(t) - 1)) * 10
         + ((CHOOSE d \in DOMAIN DigitChars : DigitChars[d] = t[Len(t)]) - 1)

\* the returned text is the count divided by 1024^k, to two decimals, a space
\* and the unit
Displays(text, n, k, unit) ==
    LET parts == split(text, " ")
        number == split(parts[1], ".")
        shown == decimal_value(number[1]) * 100 + decimal_value(number[2])
        whole == digits_value(SubSeq(n, 1, Len(n) - k))
        frac == SubSeq(n, Len(n) - k + 1, Len(n))
        low == whole * 100 + times_frac(frac, 100).carry
    IN /\ Len(parts) = 2
       /\ parts[2] = unit
       /\ Len(number) = 2
       /\ Len(number[2]) = 2
       /\ \A i \in DOMAIN parts[1] :
             parts[1][i] = "." \/ \E d \in DOMAIN DigitChars : DigitChars[d] = parts[1][i]
       /\ Len(n) > k \/ n = <<0>>
       /\ low <= shown /\ shown <= low + 1
       /\ (\A i \in DOMAIN frac : frac[i] = 0) => shown = low

\* C17: the unit is B below 1024, KB below 1024^2, MB below 1024^3, GB below
\* 1024^4 and TB from there on, the displayed number is the count divided by
\* the unit's power of 1024 to two decimals, format_size(0) is "0.00 B" and
\* format_size(1024) is "1.00 KB".
C17_UnitScale ==
    Returned("format_size") =>
       /\ Displays(ret[1], call.bytes_size, UnitPower(call.bytes_size),
                   SIZE_UNITS[UnitPower(call.bytes_size) + 1])
       /\ call.bytes_size = <<0>> => ret[1] = <<"0", ".", "0", "0", " ", "B">>
       /\ call.bytes_size = <<1, 0>> =>
             ret[1] = <<"1", ".", "0", "0", " ", "K", "B">>

\* a call with the count 1024^5 - 1, shown in TB
C17_Witness ==
    /\ Returned("format_size")
    /\ call.bytes_size = [i \in 1..Len(SIZE_UNITS) |-> BYTES_PER_KB - 1]
    /\ ret[1] = <<"1", "0", "2", "4", ".", "0", "0", " ", "T", "B">>

\* the listed files are distinct
DistinctFiles == \A i, j \in DOMAIN image_files : image_files[i] = image_files[j] => i = j

\* the write of task i failed: the only outcome that the environment decides
WriteFailed(i) ==
    /\ tasks[i].outcome = "failed"
    /\ tasks[i].original_size # None
    /\ tasks[i].optimized_size # None

RECURSIVE ExpectedResults(_)
\* the results of the first n tasks, each computed on its own from the tree as
\* it was before the run, in the order of the list
ExpectedResults(n) ==
    IF n = 0 THEN <<>>
    ELSE ExpectedResults(n - 1)
         \o (IF WriteFailed(n) THEN <<>>
             ELSE optimize_image(tasks[n].src, tasks[n].dst, TRUE, init_fs.fs,
                                 init_fs.dirs, TRUE).result)

\* C18: for distinct files the set of results and the summary totals do not
\* depend on the number of workers or on the order in which tasks complete:
\* they are those of the files taken one by one from the initial tree; with one
\* worker the results are in discovery order.
C18_OrderIndependent ==
    (BatchReturned /\ DistinctFiles) =>
       LET expected == ExpectedResults(Len(tasks))
       IN /\ Len(results) = Len(expected)
          /\ {results[k] : k \in DOMAIN results} = {expected[k] : k \in DOMAIN expected}
          /\ summary = <<summarize(expected)>>
          /\ ~parallel(eff.workers) => results = expected

\* a parallel batch of distinct files in which a later file completed first and
\* both were optimized
C18_Witness ==
    /\ BatchReturned
    /\ DistinctFiles
    /\ parallel(eff.workers)
    /\ ~args.dry_run
    /\ Len(results) >= 2
    /\ results[1].path = tasks[2].src
    /\ results[2].path = tasks[1].src

====
